---- MODULE Spec2Model ----
(***************************************************************************)
(* Multi-tenant record keeping (app.py): a users directory (users.db), one *)
(* SQLite store per company (campos / registros / valores), a cookie       *)
(* session per client and the Flask request handlers.                      *)
(*                                                                         *)
(* Text values are sequences of one-character strings, so that strip()     *)
(* and lower() are computed and never assumed.  A table is the sequence of *)
(* its rows in rowid order; an AUTOINCREMENT key keeps its own counter     *)
(* (sqlite_sequence), so an id is never reused.  registros.creado_at       *)
(* (CURRENT_TIMESTAMP) and valores.id are never read by any handler; the   *)
(* position of a row in valores stands for its rowid.                      *)
(*                                                                         *)
(* Requests of different clients interleave statement by statement.  A     *)
(* client sends one request at a time; pc[c] is the request of client c    *)
(* that is under way.  A SELECT reads the committed file.  The first       *)
(* INSERT or DELETE of a connection opens a transaction that holds the     *)
(* file's write lock until conn.commit(); what it writes is seen by no     *)
(* other connection before the commit, and a write of another connection   *)
(* waits for the lock (the step is taken later) or, after sqlite3's        *)
(* timeout of 5 s, raises OperationalError "database is locked".  CREATE   *)
(* TABLE runs outside any transaction and is seen at once.                 *)
(*                                                                         *)
(* Every route is modelled as a served handler.  app.py names              *)
(* login_required above its definition and defines campos_add twice under  *)
(* one route; both definitions of campos_add are kept as handlers, since   *)
(* either may be the one that serves the route.  get_campos is called by   *)
(* the handlers and defined in neither source file: it is the ListFields   *)
(* of the specification, all campos in id order, read like get_registros   *)
(* reads (no rows when there is no connection, one SELECT otherwise).      *)
(***************************************************************************)
EXTENDS Integers, Sequences, FiniteSets, TLC

VARIABLES
    users,      \* committed rows of users.db, in id order
    files,      \* db_path -> committed content of that company file, or NoFile
    session,    \* client -> the client's Flask session
    response,   \* what the last finished request answered
    pc,         \* client -> its request under way: where it stands and its locals
    reg,        \* history: the raw (email, password) every user registered with
    sessEvent   \* history: client -> its latest session event

vars == <<users, files, session, response, pc, reg, sessEvent>>

(***************************************************************************)
(* Bounds                                                                  *)
(***************************************************************************)
MaxUsers == 2
MaxRegistros == 1
MaxCampos == 4

(***************************************************************************)
(* Text                                                                    *)
(***************************************************************************)
Whitespace == {" "}

LowerOf == [ch \in {"A", "B", "P"} |-> IF ch = "A" THEN "a" ELSE IF ch = "B" THEN "b" ELSE "p"]

lower(s) == [i \in 1..Len(s) |-> IF s[i] \in DOMAIN LowerOf THEN LowerOf[s[i]] ELSE s[i]]

RECURSIVE lstrip(_)
lstrip(s) == IF s # <<>> /\ Head(s) \in Whitespace THEN lstrip(Tail(s)) ELSE s

RECURSIVE rstrip(_)
rstrip(s) ==
    IF s # <<>> /\ s[Len(s)] \in Whitespace THEN rstrip(SubSeq(s, 1, Len(s) - 1)) ELSE s

strip(s) == rstrip(lstrip(s))

\* werkzeug's hash: a one-way tag of the password that only check_password_hash reads
generate_password_hash(password) == [pbkdf2 |-> password]

check_password_hash(pwhash, password) == pwhash.pbkdf2 = password

(***************************************************************************)
(* Files                                                                   *)
(***************************************************************************)
NoFile == [missing |-> TRUE]
None == <<"None">>

company_db_path(uid) == <<"company_", uid, ".db">>

Paths == {company_db_path(uid) : uid \in 1..MaxUsers}

descripcion == <<"d", "e", "s", "c", "r", "i", "p", "c", "i", "o", "n">>
comprador == <<"c", "o", "m", "p", "r", "a", "d", "o", "r">>
costo == <<"c", "o", "s", "t", "o">>
text == <<"t", "e", "x", "t">>
number == <<"n", "u", "m", "b", "e", "r">>

defaults == << <<descripcion, text>>, <<comprador, text>>, <<costo, number>> >>

\* the file sqlite3.connect(db_path) creates: no table yet
EmptyTables == [tables |-> {},
                campos |-> <<>>, seq_campos |-> 0,
                registros |-> <<>>, seq_registros |-> 0,
                valores |-> <<>>]

\* the CREATE TABLE IF NOT EXISTS statements of init_company_db, in their order
Tables == <<"campos", "registros", "valores">>

missing_tables(db) == SelectSeq(Tables, LAMBDA t : t \notin db.tables)

create_table(db, t) == [db EXCEPT !.tables = @ \cup {t}]

\* INSERT INTO campos (nombre, tipo): the table declares no UNIQUE(nombre)
insert_campo(db, nombre, tipo) ==
    [db EXCEPT !.campos = Append(@, [id |-> db.seq_campos + 1, nombre |-> nombre, tipo |-> tipo]),
               !.seq_campos = @ + 1]

RECURSIVE insert_defaults(_, _)
insert_defaults(db, ds) ==
    IF ds = <<>> THEN db
    ELSE insert_defaults(insert_campo(db, Head(ds)[1], Head(ds)[2]), Tail(ds))


(***************************************************************************)
(* Statements on one company file                                          *)
(***************************************************************************)
\* no connection: no rows; otherwise SELECT id, nombre, tipo FROM campos ORDER BY id
get_campos(db) == IF db = NoFile THEN <<>> ELSE db.campos

field_key(id) == <<"field_", id>>

form_get(form, key) == IF key \in DOMAIN form THEN form[key] ELSE None

\* the loop of agregar and editar: one row per listed campo with a non-empty submission
RECURSIVE insert_valores(_, _, _, _)
insert_valores(valores, campos, registro_id, form) ==
    IF campos = <<>> THEN valores
    ELSE LET campo == Head(campos)
             val == form_get(form, field_key(campo.id))
         IN insert_valores(
                IF val # None /\ val # <<>>
                THEN Append(valores, [registro_id |-> registro_id, campo_id |-> campo.id, valor |-> val])
                ELSE valores,
                Tail(campos), registro_id, form)

delete_valores_of_registro(valores, id) ==
    LET keep(v) == v.registro_id # id IN SelectSeq(valores, keep)

\* a campos_delete that forgets the valores of the campo
delete_valores_of_campo_kept(valores, id) == valores

delete_valores_of_campo(valores, id) ==
    LET keep(v) == v.campo_id # id IN SelectSeq(valores, keep)

delete_campo(campos, id) ==
    LET keep(c) == c.id # id IN SelectSeq(campos, keep)

delete_registro(registros, id) ==
    LET keep(r) == r.id # id IN SelectSeq(registros, keep)

insert_registro(db) ==
    [db EXCEPT !.registros = Append(@, [id |-> db.seq_registros + 1]),
               !.seq_registros = @ + 1]

campo_nombre(campos, id) ==
    LET hit(c) == c.id = id IN SelectSeq(campos, hit)

\* the inner SELECT of get_registros: valores JOIN campos for one registro, in rowid order
select_valores(db, registro_id) ==
    LET mine(v) == v.registro_id = registro_id /\ campo_nombre(db.campos, v.campo_id) # <<>>
        rows == SelectSeq(db.valores, mine)
    IN [i \in 1..Len(rows) |->
            [nombre |-> campo_nombre(db.campos, rows[i].campo_id)[1].nombre, valor |-> rows[i].valor]]

\* registro["valores"][nombre] = valor, row after row: the last row of a name wins
valores_dict(rows) ==
    LET names == {rows[i].nombre : i \in 1..Len(rows)}
        last(n) == CHOOSE i \in 1..Len(rows) :
                      /\ rows[i].nombre = n
                      /\ \A j \in 1..Len(rows) : rows[j].nombre = n => j <= i
    IN [n \in names |-> rows[last(n)].valor]

reverse(s) == [i \in 1..Len(s) |-> s[Len(s) + 1 - i]]

get_registros(db) ==
    IF db = NoFile THEN <<>>
    ELSE LET regs == reverse(db.registros)
         IN [i \in 1..Len(regs) |->
                [id |-> regs[i].id, valores |-> valores_dict(select_valores(db, regs[i].id))]]

(***************************************************************************)
(* Requests                                                                *)
(***************************************************************************)
Clients == {"c1", "c2"}

EmptySession == <<>>

NoFlash == <<>>

Idle == [op |-> "idle"]

redirect(message, category, endpoint) ==
    [flash |-> message, category |-> category, view |-> <<"redirect", endpoint>>, data |-> <<>>]

render_template(template, data) ==
    [flash |-> NoFlash, category |-> "", view |-> <<"render", template>>, data |-> data]

\* an exception no handler catches: the request ends as an internal server error
unhandled(exception) ==
    [flash |-> NoFlash, category |-> "", view |-> <<"error", 500>>, data |-> exception]

AttributeError == <<"AttributeError", "'NoneType' object has no attribute 'cursor'">>

\* sqlite3.OperationalError of a statement on a table that is not created yet
no_such_table(t) == <<"OperationalError", "no such table", t>>

\* sqlite3.OperationalError of a write that waited 5 s for the lock of another connection
database_is_locked == <<"OperationalError", "database is locked">>

\* a request that answers in the step it starts with, and changes nothing
answer(r) ==
    /\ response' = r
    /\ UNCHANGED <<users, files, session, pc, reg, sessEvent>>

\* a request under way goes on to its next statement
proceed(c, locals) ==
    /\ pc' = [pc EXCEPT ![c] = locals]
    /\ UNCHANGED <<users, files, session, response, reg, sessEvent>>

\* a request under way answers
finish(c, r) ==
    /\ response' = r
    /\ pc' = [pc EXCEPT ![c] = Idle]
    /\ UNCHANGED <<users, files, session, reg, sessEvent>>

NoConn == <<>>

\* the path of the file the connection is opened on, or NoConn for None
company_conn(c) ==
    IF "company_db" \notin DOMAIN session[c] THEN NoConn
    ELSE IF session[c].company_db = <<>> THEN NoConn
    ELSE IF files[session[c].company_db] = NoFile THEN NoConn
    ELSE session[c].company_db

db_of(c) == files[company_conn(c)]

\* another connection is inside a transaction on the file
Locked(path) ==
    \E d \in Clients : pc[d].op # "idle" /\ pc[d].at = "commit" /\ pc[d].path = path

\* a register is between its INSERT INTO users and its commit
UsersLocked == \E d \in Clients : pc[d].op = "register" /\ pc[d].at = "users"

\* the connection of c after its first write: the rows it will commit and what it will answer
transaction(c, op, id, form, db, r) ==
    [op |-> op, at |-> "commit", path |-> company_conn(c), id |-> id, form |-> form,
     db |-> db, answer |-> r, held |-> FALSE, before |-> <<>>]

\* conn.commit(), conn.close() and the answer of a request that wrote.  A request whose
\* statement raised inside its transaction closes the connection without a commit: db is
\* then the file as it was and the answer is the error
commit(c) ==
    /\ pc[c].op # "idle"
    /\ pc[c].at = "commit"
    /\ files' = [files EXCEPT ![pc[c].path] = pc[c].db]
    /\ response' = pc[c].answer
    /\ pc' = [pc EXCEPT ![c] = Idle]
    /\ UNCHANGED <<users, session, reg, sessEvent>>

\* a wrapper that lets every request through
login_required_open(c) == TRUE

\* the test of the wrapper: "user_id" in session
login_required(c) == "user_id" \in DOMAIN session[c]

\* what the wrapper answers in place of the page
unauthenticated == answer(redirect(<<"Inicia sesion primero">>, "warning", "login"))

(***************************************************************************)
(* The users directory                                                     *)
(***************************************************************************)
\* users.email is declared UNIQUE
email_taken(rows, email) == \E i \in 1..Len(rows) : rows[i].email = email

fetch_user(rows, email) ==
    LET hit(u) == u.email = email IN SelectSeq(rows, hit)

\* request.form.get("email","").strip().lower() of register and of login
register_email(email_in) == lower(strip(email_in))

\* a login that forgets to lower-case the address
login_email_as_typed(email_in) == strip(email_in)

login_email(email_in) == lower(strip(email_in))

\* lines 80-93: the form, then INSERT INTO users and UPDATE users on one connection
register(c, company_in, email_in, password_in) ==
    LET company == strip(company_in)
        email == register_email(email_in)
        password == strip(password_in)
        uid == Len(users) + 1
        db_path == company_db_path(uid)
    IN /\ pc[c] = Idle
       /\ IF company = <<>> \/ email = <<>> \/ password = <<>>
          THEN answer(redirect(<<"Completa todos los campos">>, "danger", "register"))
          ELSE IF UsersLocked
          THEN answer(unhandled(database_is_locked))
          ELSE IF email_taken(users, email)
          THEN answer(redirect(<<"El correo ya esta registrado.">>, "danger", "register"))
          ELSE /\ uid <= MaxUsers
               /\ proceed(c, [op |-> "register", at |-> "users",
                              user |-> [id |-> uid, company_name |-> company, email |-> email,
                                        password_hash |-> generate_password_hash(password),
                                        db_path |-> db_path],
                              raw |-> [id |-> uid, email |-> email_in, password |-> password_in]])

\* lines 94-95: conn.commit() on users.db; the user can sign in from here on
register_commit(c) ==
    /\ pc[c].op = "register"
    /\ pc[c].at = "users"
    /\ users' = Append(users, pc[c].user)
    /\ reg' = reg \cup {pc[c].raw}
    /\ pc' = [pc EXCEPT ![c] = [op |-> "register", at |-> "connect", path |-> pc[c].user.db_path]]
    /\ UNCHANGED <<files, session, response, sessEvent>>

\* line 41: sqlite3.connect(db_path) creates the file
init_company_db_connect(c) ==
    /\ pc[c].op = "register"
    /\ pc[c].at = "connect"
    /\ files' = [files EXCEPT ![pc[c].path] = IF @ = NoFile THEN EmptyTables ELSE @]
    /\ pc' = [pc EXCEPT ![c].at = "create"]
    /\ UNCHANGED <<users, session, response, reg, sessEvent>>

\* lines 43-65: the next CREATE TABLE; register catches no OperationalError
init_company_db_create(c) ==
    /\ pc[c].op = "register"
    /\ pc[c].at = "create"
    /\ missing_tables(files[pc[c].path]) # <<>>
    /\ IF Locked(pc[c].path)
       THEN finish(c, unhandled(database_is_locked))
       ELSE /\ files' = [files EXCEPT ![pc[c].path] = create_table(@, Head(missing_tables(@)))]
            /\ UNCHANGED <<users, session, response, pc, reg, sessEvent>>

\* lines 67-69: the INSERTs of the default campos, in a transaction
init_company_db_defaults(c) ==
    /\ pc[c].op = "register"
    /\ pc[c].at = "create"
    /\ missing_tables(files[pc[c].path]) = <<>>
    /\ IF Locked(pc[c].path)
       THEN finish(c, unhandled(database_is_locked))
       ELSE proceed(c, [op |-> "register", at |-> "commit", path |-> pc[c].path,
                        id |-> 0, form |-> <<>>,
                        db |-> insert_defaults(files[pc[c].path], defaults),
                        answer |-> redirect(<<"Cuenta creada. Inicia sesion.">>, "success", "login"),
                        held |-> FALSE, before |-> <<>>])

login(c, email_in, password_in) ==
    LET email == login_email(email_in)
        password == strip(password_in)
        user == fetch_user(users, email)
    IN /\ pc[c] = Idle
       /\ IF user # <<>> /\ check_password_hash(user[1].password_hash, password)
          THEN /\ session' = [session EXCEPT ![c] = [user_id |-> user[1].id,
                                                     company_name |-> user[1].company_name,
                                                     company_db |-> user[1].db_path]]
               /\ sessEvent' = [sessEvent EXCEPT ![c] = "login"]
               /\ response' = redirect(<<"Bienvenido, ", user[1].company_name>>, "success", "index")
               /\ UNCHANGED <<users, files, pc, reg>>
          ELSE answer(redirect(<<"Email o contrasena incorrectos">>, "danger", "login"))

logout(c) ==
    /\ pc[c] = Idle
    /\ session' = [session EXCEPT ![c] = EmptySession]
    /\ sessEvent' = [sessEvent EXCEPT ![c] = "logout"]
    /\ response' = redirect(<<"Sesion cerrada">>, "info", "login")
    /\ UNCHANGED <<users, files, pc, reg>>

(***************************************************************************)
(* Company pages.  xxx_view is the decorated function, xxx the route.  A   *)
(* page that reads runs its SELECTs one step each.  A page that writes     *)
(* takes the lock with its first write and is finished by commit: no other *)
(* connection can write the file in between, so the rows it commits are    *)
(* the ones its statements give on the file as it is at the first write.   *)
(***************************************************************************)
\* lines 208 and 264: campos = get_campos()
page(c, template) ==
    LET db == IF company_conn(c) = NoConn THEN NoFile ELSE db_of(c)
    IN IF db # NoFile /\ "campos" \notin db.tables
       THEN answer(unhandled(no_such_table("campos")))
       ELSE proceed(c, [op |-> template, at |-> "get_registros", campos |-> get_campos(db)])

index_view(c) == page(c, "index.html")

index(c) ==
    /\ pc[c] = Idle
    /\ IF login_required(c) THEN index_view(c) ELSE unauthenticated

manage_view(c) == page(c, "manage.html")

manage(c) ==
    /\ pc[c] = Idle
    /\ IF login_required(c) THEN manage_view(c) ELSE unauthenticated

\* lines 175-178: company_conn() and SELECT id, creado_at FROM registros ORDER BY id DESC
get_registros_begin(c) ==
    /\ pc[c].op # "idle"
    /\ pc[c].at = "get_registros"
    /\ IF company_conn(c) = NoConn
       THEN finish(c, render_template(pc[c].op, [campos |-> pc[c].campos, registros |-> <<>>]))
       ELSE IF "registros" \notin db_of(c).tables
       THEN finish(c, unhandled(no_such_table("registros")))
       ELSE proceed(c, [op |-> pc[c].op, at |-> "rows", campos |-> pc[c].campos,
                        path |-> company_conn(c),
                        todo |-> reverse(db_of(c).registros), registros |-> <<>>])

\* the edit of registro id on the file that another connection has not committed yet
Editing(path, id) ==
    {d \in Clients : /\ pc[d].op = "editar"
                     /\ pc[d].at = "commit"
                     /\ pc[d].path = path
                     /\ pc[d].id = id
                     /\ pc[d].held}

\* lines 182-190: the SELECT of one registro.  window records whether it ran inside the
\* edit of that registro (a registro that held values, a form with a value for a campo),
\* before what the registro held when that edit began
get_registros_row(c) ==
    /\ pc[c].op # "idle"
    /\ pc[c].at = "rows"
    /\ pc[c].todo # <<>>
    /\ LET id == Head(pc[c].todo).id
           db == files[pc[c].path]
       IN IF "valores" \notin db.tables
          THEN finish(c, unhandled(no_such_table("valores")))
          ELSE proceed(c, [pc[c] EXCEPT
                  !.todo = Tail(@),
                  !.registros = Append(@,
                      [id |-> id,
                       valores |-> valores_dict(select_valores(db, id)),
                       window |-> Editing(pc[c].path, id) # {},
                       before |-> IF Editing(pc[c].path, id) # {}
                                  THEN pc[CHOOSE d \in Editing(pc[c].path, id) : TRUE].before
                                  ELSE <<>>])])

\* lines 191-192 and 210 or 266: the listing is complete and the page is rendered
get_registros_end(c) ==
    /\ pc[c].op # "idle"
    /\ pc[c].at = "rows"
    /\ pc[c].todo = <<>>
    /\ finish(c, render_template(pc[c].op,
                    [campos |-> pc[c].campos,
                     registros |-> [i \in 1..Len(pc[c].registros) |->
                                      [id |-> pc[c].registros[i].id,
                                       valores |-> pc[c].registros[i].valores]]]))

agregar_view(c, method, form) ==
    IF method = "GET"
    THEN LET db == IF company_conn(c) = NoConn THEN NoFile ELSE db_of(c)
         IN IF db # NoFile /\ "campos" \notin db.tables
            THEN answer(unhandled(no_such_table("campos")))
            ELSE answer(render_template("agregar.html", [campos |-> get_campos(db)]))
    ELSE IF company_conn(c) = NoConn
    THEN \* conn is None: conn.cursor() raises
         answer(unhandled(AttributeError))
    ELSE IF "registros" \notin db_of(c).tables
    THEN answer(unhandled(no_such_table("registros")))
    ELSE IF Locked(company_conn(c))
    THEN answer(unhandled(database_is_locked))
    ELSE LET created == insert_registro(db_of(c))
             registro_id == created.seq_registros
             valores == insert_valores(created.valores, get_campos(db_of(c)), registro_id, form)
         IN /\ registro_id <= MaxRegistros
            /\ IF valores # created.valores /\ "valores" \notin db_of(c).tables
               THEN \* the first INSERT INTO valores raises: the registro is rolled back
                    proceed(c, transaction(c, "agregar", registro_id, form, db_of(c),
                                           unhandled(no_such_table("valores"))))
               ELSE proceed(c, transaction(c, "agregar", registro_id, form,
                                           [created EXCEPT !.valores = valores],
                                           redirect(<<"Registro agregado">>, "success", "index")))

agregar(c, method, form) ==
    /\ pc[c] = Idle
    /\ IF login_required(c) THEN agregar_view(c, method, form) ELSE unauthenticated

\* line 248 as the other connections see it: a connection in autocommit mode, whose
\* DELETE reaches the file at once
editar_delete_autocommit(db, id) == [db EXCEPT !.valores = delete_valores_of_registro(@, id)]

\* line 248 as the other connections see it: sqlite3 opens a transaction before the DELETE,
\* the file they read keeps its rows until the commit
editar_delete(db, id) == db

editar_view(c, id, method, form) ==
    IF company_conn(c) = NoConn
    THEN answer(redirect(<<"DB no disponible">>, "danger", "index"))
    ELSE IF method = "GET"
    THEN IF "campos" \notin db_of(c).tables
         THEN answer(unhandled(no_such_table("campos")))
         ELSE proceed(c, [op |-> "editar", at |-> "valores", path |-> company_conn(c),
                          id |-> id, campos |-> get_campos(db_of(c))])
    ELSE IF "valores" \notin db_of(c).tables
    THEN answer(unhandled(no_such_table("valores")))
    ELSE IF Locked(company_conn(c))
    THEN answer(unhandled(database_is_locked))
    ELSE LET db == db_of(c)
             held == /\ \E i \in 1..Len(db.registros) : db.registros[i].id = id
                     /\ select_valores(db, id) # <<>>
                     /\ \E i \in 1..Len(db.campos) :
                           LET k == field_key(db.campos[i].id)
                           IN k \in DOMAIN form /\ form[k] # <<>>
             written == [db EXCEPT !.valores = insert_valores(delete_valores_of_registro(@, id),
                                                              get_campos(db), id, form)]
         IN /\ files' = [files EXCEPT ![company_conn(c)] = editar_delete(@, id)]
            /\ pc' = [pc EXCEPT ![c] =
                        [transaction(c, "editar", id, form, written,
                                     redirect(<<"Registro actualizado">>, "success", "index"))
                         EXCEPT !.held = held,
                                !.before = valores_dict(select_valores(db, id))]]
            /\ UNCHANGED <<users, session, response, reg, sessEvent>>

editar(c, id, method, form) ==
    /\ pc[c] = Idle
    /\ IF login_required(c) THEN editar_view(c, id, method, form) ELSE unauthenticated

\* line 243 of the GET branch: SELECT campo_id, valor FROM valores WHERE registro_id = ?
editar_valores(c) ==
    /\ pc[c].op = "editar"
    /\ pc[c].at = "valores"
    /\ LET db == files[pc[c].path]
           mine(v) == v.registro_id = pc[c].id
           rows == SelectSeq(db.valores, mine)
       IN IF "valores" \notin db.tables
          THEN finish(c, unhandled(no_such_table("valores")))
          ELSE finish(c, render_template("editar.html",
                            [campos |-> pc[c].campos, registro_id |-> pc[c].id,
                             valores |-> [k \in {rows[i].campo_id : i \in 1..Len(rows)} |->
                                            rows[CHOOSE i \in 1..Len(rows) :
                                                   /\ rows[i].campo_id = k
                                                   /\ \A j \in 1..Len(rows) :
                                                        rows[j].campo_id = k => j <= i].valor]]))

\* NOT NULL is the only constraint of campos an INSERT can violate
campos_integrity_error(nombre, tipo) == nombre = None \/ tipo = None

\* the notice of the except Exception branch, lines 166-168
error_interno(e) ==
    redirect(<<"Error interno al agregar campo: ", e>>, "danger", "manage")

\* the definition of lines 144-172
campos_add_view(c, nombre_in, tipo_in) ==
    LET nombre == strip(nombre_in)
        tipo == strip(IF tipo_in = None THEN text ELSE tipo_in)
    IN IF nombre = <<>>
       THEN answer(redirect(<<"Nombre requerido">>, "danger", "manage"))
       ELSE IF company_conn(c) = NoConn
       THEN answer(redirect(<<"Base de datos no disponible">>, "danger", "manage"))
       ELSE IF "campos" \notin db_of(c).tables
       THEN answer(error_interno(no_such_table("campos")))
       ELSE IF Locked(company_conn(c))
       THEN answer(error_interno(database_is_locked))
       ELSE IF campos_integrity_error(nombre, tipo)
       THEN answer(redirect(<<"El campo ya existe">>, "warning", "manage"))
       ELSE /\ db_of(c).seq_campos < MaxCampos
            /\ proceed(c, transaction(c, "campos_add", db_of(c).seq_campos + 1, <<>>,
                                      insert_campo(db_of(c), nombre, tipo),
                                      redirect(<<"Campo agregado", nombre>>, "success", "manage")))

campos_add(c, nombre_in, tipo_in) ==
    /\ pc[c] = Idle
    /\ IF login_required(c) THEN campos_add_view(c, nombre_in, tipo_in) ELSE unauthenticated

\* the second definition under the same name and route, lines 268-284
campos_add_again_view(c, nombre_in, tipo_in) ==
    LET nombre == strip(nombre_in)
        tipo == strip(IF tipo_in = None THEN text ELSE tipo_in)
    IN IF nombre = <<>>
       THEN answer(redirect(<<"Nombre requerido">>, "danger", "manage"))
       ELSE IF company_conn(c) = NoConn
       THEN answer(unhandled(AttributeError))
       ELSE IF "campos" \notin db_of(c).tables
       THEN answer(unhandled(no_such_table("campos")))
       ELSE IF Locked(company_conn(c))
       THEN answer(unhandled(database_is_locked))
       ELSE IF campos_integrity_error(nombre, tipo)
       THEN answer(redirect(<<"El campo ya existe">>, "warning", "manage"))
       ELSE /\ db_of(c).seq_campos < MaxCampos
            /\ proceed(c, transaction(c, "campos_add", db_of(c).seq_campos + 1, <<>>,
                                      insert_campo(db_of(c), nombre, tipo),
                                      redirect(NoFlash, "", "manage")))

campos_add_again(c, nombre_in, tipo_in) ==
    /\ pc[c] = Idle
    /\ IF login_required(c) THEN campos_add_again_view(c, nombre_in, tipo_in) ELSE unauthenticated

campos_delete_view(c, id) ==
    IF company_conn(c) = NoConn
    THEN answer(unhandled(AttributeError))
    ELSE IF "valores" \notin db_of(c).tables
    THEN answer(unhandled(no_such_table("valores")))
    ELSE IF Locked(company_conn(c))
    THEN answer(unhandled(database_is_locked))
    ELSE proceed(c, transaction(c, "campos_delete", id, <<>>,
                                [db_of(c) EXCEPT !.valores = delete_valores_of_campo(@, id),
                                                 !.campos = delete_campo(@, id)],
                                redirect(<<"Campo eliminado">>, "info", "manage")))

campos_delete(c, id) ==
    /\ pc[c] = Idle
    /\ IF login_required(c) THEN campos_delete_view(c, id) ELSE unauthenticated

registros_delete_view(c, id) ==
    IF company_conn(c) = NoConn
    THEN answer(unhandled(AttributeError))
    ELSE IF "valores" \notin db_of(c).tables
    THEN answer(unhandled(no_such_table("valores")))
    ELSE IF Locked(company_conn(c))
    THEN answer(unhandled(database_is_locked))
    ELSE proceed(c, transaction(c, "registros_delete", id, <<>>,
                                [db_of(c) EXCEPT !.valores = delete_valores_of_registro(@, id),
                                                 !.registros = delete_registro(@, id)],
                                redirect(<<"Registro eliminado">>, "info", "manage")))

registros_delete(c, id) ==
    /\ pc[c] = Idle
    /\ IF login_required(c) THEN registros_delete_view(c, id) ELSE unauthenticated

\* the directory loses a company file (os.path.exists turns false) while no request runs
lose_file(path) ==
    /\ files[path] # NoFile
    /\ \A c \in Clients : pc[c] = Idle
    /\ files' = [files EXCEPT ![path] = NoFile]
    /\ UNCHANGED <<users, session, response, pc, reg, sessEvent>>

(***************************************************************************)
(* Initial state: no user, no company file, no session, no request         *)
(***************************************************************************)
Init ==
    /\ users = <<>>
    /\ files = [p \in Paths |-> NoFile]
    /\ session = [c \in Clients |-> EmptySession]
    /\ response = render_template("login.html", <<>>)
    /\ pc = [c \in Clients |-> Idle]
    /\ reg = {}
    /\ sessEvent = [c \in Clients |-> "none"]

(***************************************************************************)
(* Inputs                                                                  *)
(***************************************************************************)
x == <<"x">>
y == <<"y">>
w == <<"w">>
Acme == <<"A", "c", "m", "e">>

Methods == {"GET", "POST"}

RegistroIds == 1..MaxRegistros

\* the campos a delete form names: a default one and the last one that can be added
CampoIds == {1, MaxCampos}

Form(keys, vals) == [k \in {field_key(i) : i \in keys} |-> vals[k[2]]]

Forms ==
    { Form({1, 2}, <<x, <<>>>>),
      Form({1}, <<<<>>>>),
      Form({1, 3, 4}, <<y, y, x, y>>) }

\* (nombre, tipo) of a campos/add form; tipo None is a form without that key
CampoForms == {<<<<" ">> \o costo, None>>, <<<<" ">>, text>>}

(***************************************************************************)
(* One company store: one client registers the company, the other signs    *)
(* in to it, as early as the user row is committed, and works on it        *)
(***************************************************************************)
NextStore ==
    \/ register("c2", Acme, <<"a">>, <<"p">>)
    \/ register_commit("c2")
    \/ init_company_db_connect("c2")
    \/ init_company_db_create("c2")
    \/ init_company_db_defaults("c2")
    \/ \E c \in Clients : commit(c)
    \/ login("c1", <<"a">>, <<"p">>)
    \/ \E f \in Forms : agregar("c1", "POST", f)
    \/ \E id \in RegistroIds, f \in Forms : editar("c1", id, "POST", f)
    \/ \E nt \in CampoForms : campos_add("c1", nt[1], nt[2])
    \/ \E nt \in CampoForms : campos_add_again("c1", nt[1], nt[2])
    \/ \E id \in CampoIds : campos_delete("c1", id)
    \/ \E id \in RegistroIds : registros_delete("c1", id)
    \/ \E p \in Paths : lose_file(p)

SpecStore == Init /\ [][NextStore]_vars

(***************************************************************************)
(* The session gate: two clients on one account, every route               *)
(***************************************************************************)
GateForm == Form({1, 2}, <<x, <<>>>>)

GateLogins == {<<<<"a">>, <<"p">>>>, <<<<"a">>, <<"q">>>>}

Next ==
    \/ register("c1", Acme, <<"a">>, <<"p">>)
    \/ register_commit("c1")
    \/ init_company_db_connect("c1")
    \/ init_company_db_create("c1")
    \/ init_company_db_defaults("c1")
    \/ \E c \in Clients : commit(c)
    \/ \E c \in Clients, ep \in GateLogins : login(c, ep[1], ep[2])
    \/ \E c \in Clients : logout(c)
    \/ agregar("c1", "POST", GateForm)
    \/ index("c2")
    \/ manage("c2")
    \/ get_registros_begin("c2")
    \/ get_registros_row("c2")
    \/ get_registros_end("c2")
    \/ \E m \in Methods : agregar("c2", m, GateForm)
    \/ \E m \in Methods : editar("c2", 1, m, GateForm)
    \/ editar_valores("c2")
    \/ campos_add("c2", w, None)
    \/ campos_add_again("c2", w, None)
    \/ campos_delete("c2", 3)
    \/ registros_delete("c2", 1)

Spec == Init /\ [][Next]_vars

(***************************************************************************)
(* The users directory: two clients register, one of them signs in and out  *)
(***************************************************************************)
Companies == {Acme, <<" ">>}

Emails == {<<"a">>, <<" ", "A">>, <<"b">>}

Passwords == {<<"p">>, <<"p", " ">>, <<"P">>}

NextAuth ==
    \/ \E c \in Clients, cmp \in Companies, e \in Emails, p \in Passwords : register(c, cmp, e, p)
    \/ \E c \in Clients : register_commit(c)
    \/ \E c \in Clients : init_company_db_connect(c)
    \/ \E c \in Clients : init_company_db_create(c)
    \/ \E c \in Clients : init_company_db_defaults(c)
    \/ \E c \in Clients : commit(c)
    \/ \E e \in Emails, p \in Passwords : login("c1", e, p)
    \/ logout("c1")

SpecAuth == Init /\ [][NextAuth]_vars

(***************************************************************************)
(* Two requests on one company file: c1 adds and edits, c2 lists           *)
(***************************************************************************)
ConcForms == {Form({1, 2}, <<x, <<>>>>), Form({1}, <<<<>>>>), Form({2, 3}, <<y, y, y>>)}

NextConc ==
    \/ register("c1", Acme, <<"a">>, <<"p">>)
    \/ register_commit("c1")
    \/ init_company_db_connect("c1")
    \/ init_company_db_create("c1")
    \/ init_company_db_defaults("c1")
    \/ commit("c1")
    \/ \E c \in Clients : login(c, <<"a">>, <<"p">>)
    \/ \E f \in ConcForms : agregar("c1", "POST", f)
    \/ \E id \in RegistroIds, f \in ConcForms : editar("c1", id, "POST", f)
    \/ index("c2")
    \/ get_registros_begin("c2")
    \/ get_registros_row("c2")
    \/ get_registros_end("c2")

SpecConc == Init /\ [][NextConc]_vars

(***************************************************************************)
(* Properties                                                              *)
(***************************************************************************)
Active(c) == sessEvent[c] = "login"

Present(c) == Active(c) /\ "company_db" \in DOMAIN session[c] /\ files[session[c].company_db] # NoFile

Store(c) == files[session[c].company_db]

\* the store of the session has its three tables and no other connection holds its lock
Available(c) ==
    /\ Present(c)
    /\ missing_tables(Store(c)) = <<>>
    /\ ~Locked(session[c].company_db)

\* client c is about to commit the transaction of handler op
Committing(c, op) == pc[c].op = op /\ pc[c].at = "commit"

Ids(rows) == {rows[i].id : i \in 1..Len(rows)}

Rows(table) == {table[i] : i \in 1..Len(table)}

Crashed(r) == r.view = <<"error", 500>>

\* C1: every stored value names a campo and a registro that are in the same store
C1_ValuesReferenceExisting ==
    \A p \in Paths : files[p] # NoFile =>
        \A v \in Rows(files[p].valores) :
            /\ v.campo_id \in Ids(files[p].campos)
            /\ v.registro_id \in Ids(files[p].registros)

\* C2: no two campos of one store have the same nombre
C2_FieldNamesUnique ==
    \A p \in Paths : files[p] # NoFile =>
        \A i, j \in 1..Len(files[p].campos) :
            files[p].campos[i].nombre = files[p].campos[j].nombre => i = j

\* the value map of registro id is exactly the non-empty submissions of form, by campo name
ShowsSubmission(db, id, form) ==
    LET given == {i \in 1..Len(db.campos) :
                     /\ field_key(db.campos[i].id) \in DOMAIN form
                     /\ form[field_key(db.campos[i].id)] # <<>>}
        listed == get_registros(db)
    IN \E k \in 1..Len(listed) :
          /\ listed[k].id = id
          /\ DOMAIN listed[k].valores = {db.campos[i].nombre : i \in given}
          /\ \A i \in given :
                listed[k].valores[db.campos[i].nombre] = form[field_key(db.campos[i].id)]

\* C6: once an agregar, or an editar of an existing registro, has committed, the listing
\* shows for that registro exactly the campos the form gave a non-empty value, each with
\* that value
C6_RecordShowsSubmission ==
    [][\A c \in Clients :
          /\ (Committing(c, "agregar") /\ ~Crashed(pc[c].answer) /\ commit(c))
                => ShowsSubmission(files'[pc[c].path], pc[c].id, pc[c].form)
          /\ (/\ Committing(c, "editar")
              /\ pc[c].id \in Ids(files[pc[c].path].registros)
              /\ commit(c))
                => ShowsSubmission(files'[pc[c].path], pc[c].id, pc[c].form)]_vars

\* C8: on a store that is available, deleting an id that is not a current registro, or not
\* a current campo, does not raise and leaves campos, registros and valores as they were
C8_DeleteMissingIsNoOp ==
    [][\A c \in Clients :
          /\ \A id \in RegistroIds :
                (Available(c) /\ id \notin Ids(Store(c).registros) /\ registros_delete(c, id))
                  => Committing(c, "registros_delete")'
          /\ \A id \in CampoIds :
                (Available(c) /\ id \notin Ids(Store(c).campos) /\ campos_delete(c, id))
                  => Committing(c, "campos_delete")'
          /\ (/\ Committing(c, "registros_delete")
              /\ pc[c].id \notin Ids(files[pc[c].path].registros)
              /\ commit(c))
                => (files' = files /\ ~Crashed(response'))
          /\ (/\ Committing(c, "campos_delete")
              /\ pc[c].id \notin Ids(files[pc[c].path].campos)
              /\ commit(c))
                => (files' = files /\ ~Crashed(response'))]_vars

StoreUnavailable(r) ==
    /\ r.view[1] = "redirect"
    /\ r.category = "danger"
    /\ r.flash \in {<<"DB no disponible">>, <<"Base de datos no disponible">>}

\* the step of a store request that meets the absent file
StoreRequest(c) ==
    \/ get_registros_begin(c)
    \/ \E m \in Methods, f \in Forms : agregar(c, m, f)
    \/ \E id \in RegistroIds, m \in Methods, f \in Forms : editar(c, id, m, f)
    \/ \E nt \in CampoForms : strip(nt[1]) # <<>> /\ campos_add(c, nt[1], nt[2])
    \/ \E nt \in CampoForms : strip(nt[1]) # <<>> /\ campos_add_again(c, nt[1], nt[2])
    \/ \E id \in CampoIds : campos_delete(c, id)
    \/ \E id \in RegistroIds : registros_delete(c, id)

\* C9: with the company file of the session absent, every store request ends with the
\* store-unavailable notice and a redirect, never with an unhandled exception
C9_AbsentStoreIsReported ==
    [][\A c \in Clients :
          (Active(c) /\ ~Present(c) /\ StoreRequest(c)) => StoreUnavailable(response')]_vars

\* C7: on a store that is available, campos_delete of an existing campo begins its
\* transaction, and its commit removes that campo and every valor of it and leaves the
\* registros, the other campos and the valores of the other campos as they were, so no
\* listed registro shows a valor of that campo any more
C7_DeleteFieldFrame ==
    [][\A c \in Clients :
          /\ \A id \in CampoIds :
                (Available(c) /\ id \in Ids(Store(c).campos) /\ campos_delete(c, id))
                  => (Committing(c, "campos_delete")' /\ pc'[c].id = id /\ files' = files)
          /\ (/\ Committing(c, "campos_delete")
              /\ pc[c].id \in Ids(files[pc[c].path].campos)
              /\ commit(c)) =>
                LET id == pc[c].id
                    old == files[pc[c].path]
                    new == files'[pc[c].path]
                    otherCampo(f) == f.id # id
                    otherValor(v) == v.campo_id # id
                    oldRest == [old EXCEPT !.campos = SelectSeq(old.campos, otherCampo),
                                           !.valores = SelectSeq(old.valores, otherValor)]
                IN /\ response' = redirect(<<"Campo eliminado">>, "info", "manage")
                   /\ id \notin Ids(get_campos(new))
                   /\ \A v \in Rows(new.valores) : v.campo_id # id
                   /\ new.registros = old.registros
                   /\ new.campos = SelectSeq(old.campos, otherCampo)
                   /\ new.valores = SelectSeq(old.valores, otherValor)
                   /\ get_registros(new) = get_registros(oldRest)
                   /\ \A p \in Paths : p # pc[c].path => files'[p] = files[p]]_vars

C7_Witness ==
    /\ response.flash = <<"Campo eliminado">>
    /\ \E c \in Clients :
          /\ Present(c)
          /\ Len(Store(c).campos) < Store(c).seq_campos
          /\ Store(c).registros # <<>>
          /\ Store(c).valores # <<>>

DuplicateEmail == redirect(<<"El correo ya esta registrado.">>, "danger", "register")

InvalidCredentials == redirect(<<"Email o contrasena incorrectos">>, "danger", "login")

Unauthenticated == redirect(<<"Inicia sesion primero">>, "warning", "login")

Stored(e) == \E i \in 1..Len(users) : users[i].email = lower(strip(e))

\* C3: a register whose company and password are not empty once trimmed (the form is
\* validated before users.db is touched) and whose address, trimmed and lower-cased, is the
\* address of a stored user answers DuplicateEmail and leaves users and company files as
\* they were, whatever else is under way
C3_DuplicateEmail ==
    [][\A c \in Clients, cmp \in Companies, e \in Emails, p \in Passwords :
          (/\ Stored(e)
           /\ strip(cmp) # <<>>
           /\ strip(p) # <<>>
           /\ register(c, cmp, e, p))
            => (response' = DuplicateEmail /\ users' = users /\ files' = files /\ pc' = pc)]_vars

SignedInAs(c, uid) ==
    /\ "user_id" \in DOMAIN session'[c]
    /\ session'[c].user_id = uid
    /\ session'[c].company_db = company_db_path(uid)
    /\ sessEvent'[c] = "login"
    /\ response'.view = <<"redirect", "index">>

\* C4 as stated: login succeeds as the registered user exactly when the lower-cased address
\* equals the lower-cased registered address and the password equals the registered password;
\* otherwise it answers InvalidCredentials and the session stays as it was
C4_AuthenticateExact ==
    [][\A c \in Clients, e \in Emails, p \in Passwords :
          login(c, e, p) =>
              LET match == {g \in reg : lower(e) = lower(g.email) /\ p = g.password}
              IN IF match # {}
                 THEN \E g \in match : SignedInAs(c, g.id)
                 ELSE response' = InvalidCredentials /\ session' = session]_vars

\* C4 amended: the same with both addresses and both passwords trimmed before they are compared
C4_Authenticate ==
    [][\A c \in Clients, e \in Emails, p \in Passwords :
          login(c, e, p) =>
              LET match == {g \in reg : /\ lower(strip(e)) = lower(strip(g.email))
                                        /\ strip(p) = strip(g.password)}
              IN IF match # {}
                 THEN \E g \in match : SignedInAs(c, g.id)
                 ELSE response' = InvalidCredentials /\ session' = session]_vars

C4_Witness ==
    /\ response.view = <<"redirect", "index">>
    /\ \E c \in Clients, g \in reg :
          /\ "user_id" \in DOMAIN session[c]
          /\ session[c].user_id = g.id
          /\ g.email # lower(strip(g.email))
          /\ g.password # strip(g.password)

\* the first step of every protected route
ProtectedRequest(c) ==
    \/ index(c)
    \/ manage(c)
    \/ \E m \in Methods : agregar(c, m, GateForm)
    \/ \E m \in Methods : editar(c, 1, m, GateForm)
    \/ campos_add(c, w, None)
    \/ campos_add_again(c, w, None)
    \/ campos_delete(c, 3)
    \/ registros_delete(c, 1)

\* the requests under way that read or write a company store
OnStore(c) == pc[c].op \notin {"idle", "register"}

\* C5: a client's session is set exactly when its latest session event is a successful
\* login, a request is under way on a company store only for a client with such a session,
\* and a protected request of a client without one answers Unauthenticated and leaves
\* every user and every company file as it was
C5_SessionGate ==
    /\ [](\A c \in Clients : /\ ("user_id" \in DOMAIN session[c]) <=> Active(c)
                             /\ OnStore(c) => Active(c))
    /\ [][\A c \in Clients :
             (~Active(c) /\ ProtectedRequest(c))
               => (response' = Unauthenticated /\ users' = users /\ files' = files /\ pc' = pc)]_vars

C5_Witness ==
    /\ response = Unauthenticated
    /\ \E c, d \in Clients :
          /\ sessEvent[c] = "logout"
          /\ Present(d)
          /\ Store(d).registros # <<>>

\* C10 as stated: a listing that reads a registro inside the edit of that registro (old
\* values deleted, new ones not yet committed) observes it with zero values
C10_WindowShowsNoValues ==
    \A c \in Clients : (pc[c].op # "idle" /\ pc[c].at = "rows") =>
        \A i \in 1..Len(pc[c].registros) :
            pc[c].registros[i].window => DOMAIN pc[c].registros[i].valores = {}

\* C10 amended: a listing that reads a registro inside the edit of that registro never
\* observes it with zero values; it still reads the values committed before the edit
C10_WindowShowsOldValues ==
    \A c \in Clients : (pc[c].op # "idle" /\ pc[c].at = "rows") =>
        \A i \in 1..Len(pc[c].registros) :
            pc[c].registros[i].window =>
                /\ DOMAIN pc[c].registros[i].valores # {}
                /\ pc[c].registros[i].valores = pc[c].registros[i].before

C10_Witness ==
    \E c, d \in Clients :
        /\ pc[c].op # "idle"
        /\ pc[c].at = "rows"
        /\ \E i \in 1..Len(pc[c].registros) : pc[c].registros[i].window
        /\ Committing(d, "editar")

====
